---- MODULE Spec2Model ----
(***************************************************************************)
(* A model of the online learning engine of rsrl: Watkins' Q(lambda)       *)
(* (control/td/q_lambda.rs), gradient Monte-Carlo                          *)
(* (prediction/mc/gradient_mc.rs) and the one-step QLearning / SARSA       *)
(* agents (agents/td_zero.rs) over linear / partitioned approximators      *)
(* (fa/mod.rs, fa/partitions.rs); the Partitions approximator on its own   *)
(* (SpecPartitions) and the MountainCar domain                             *)
(* (domains/mountain_car/discrete.rs, SpecCar).                            *)
(*                                                                         *)
(* f64 quantities are modelled as exact rationals <<n, d>> (d > 0, lowest  *)
(* terms); floating-point rounding, infinities and NaN are outside the     *)
(* model.                                                                  *)
(***************************************************************************)
EXTENDS Integers, Sequences, FiniteSets, TLC

VARIABLES
    algo,        \* which algorithm object was constructed
    cfg,         \* the construction-time arguments (alpha, gamma, trace.lambda)
    fa_theta,    \* QLambda.fa_theta: weights, one column per action
    trace,       \* QLambda.trace: [weights, lambda]
    alpha,       \* self.alpha (Parameter)
    gamma,       \* self.gamma (Parameter)
    v_func,      \* GradientMC.v_func: one weight per partition cell
    q_func,      \* QLearning/SARSA.q_func: one row per cell, one column per action
    cells,       \* the Shared<..> cells' borrow flags after the last call
    op,          \* the operation that made the last step
    lastT,       \* its transition argument (handle_sample, handle)
    lastB,       \* its batch argument (handle_batch)
    sampled,     \* what the policies returned during the last call
    ret,         \* what the last call returned / recorded
    prev,        \* the data fields as they were before the last call
    nSamples,    \* handle_sample / handle / handle_batch calls so far
    nTerminals,  \* handle_terminal calls so far
    episodeLen,  \* handle_sample calls since the last handle_terminal
    eligible,    \* the executed actions of the steps the trace still carries
    fwd,         \* terminal signals forwarded to the target and behaviour policies
    part,        \* a Partitions approximator: [space, weights, fault]
    ledger,      \* per cell (tuple of partition indices), the errors applied so far
    probe,       \* the last call made on the Partitions object
    nUpdates,    \* Partitions update calls so far
    car,         \* a MountainCar domain: [x, v]
    hop,         \* the last step call: the state before it and its Transition
    nSteps       \* MountainCar step calls so far

(* the learning engine, the approximator on its own, the domain on its own *)
engine == <<algo, cfg, fa_theta, trace, alpha, gamma, v_func, q_func, cells, op,
            lastT, lastB, sampled, ret, prev, nSamples, nTerminals, episodeLen,
            eligible, fwd>>

approximator == <<part, ledger, probe, nUpdates>>

domain == <<car, hop, nSteps>>

vars == <<engine, approximator, domain>>

----------------------------------------------------------------------------
(* Bounds of the model *)

MaxSamples == 2
MaxTerminals == 2
MaxBatch == 3
MaxHandles == 2

States == {1, 2}
Actions == {0, 1}
Features == {1, 2}
Rewards == {0, 1}
BatchRewards == {0, 1, 2}

----------------------------------------------------------------------------
(* f64 arithmetic as exact rationals *)

Abs(n) == IF n < 0 THEN -n ELSE n

RECURSIVE GCD(_, _)
GCD(a, b) == IF b = 0 THEN a ELSE GCD(b, a % b)

R(n, d) ==
    LET s == IF d < 0 THEN -1 ELSE 1
        g == GCD(Abs(n), Abs(d))
    IN  IF n = 0 THEN <<0, 1>> ELSE <<(s * n) \div g, (s * d) \div g>>

Zero == R(0, 1)
One == R(1, 1)
Half == R(1, 2)

RAdd(x, y) == R(x[1] * y[2] + y[1] * x[2], x[2] * y[2])
RSub(x, y) == R(x[1] * y[2] - y[1] * x[2], x[2] * y[2])
RMul(x, y) == R(x[1] * y[1], x[2] * y[2])
RLt(x, y) == x[1] * y[2] < y[1] * x[2]
RLe(x, y) == x[1] * y[2] <= y[1] * x[2]
RMax(x, y) == IF RLt(x, y) THEN y ELSE x
RMin(x, y) == IF RLt(x, y) THEN x ELSE y

RECURSIVE RSum(_, _)
RSum(f, S) ==
    IF S = {} THEN Zero
    ELSE LET i == CHOOSE j \in S : \A k \in S : j <= k
         IN  RAdd(f[i], RSum(f, S \ {i}))

----------------------------------------------------------------------------
(* Parameter: a fixed value, or an exponential schedule moving from init  *)
(* toward final_ by the factor decay at every step(), never past final_.   *)
(* The current value is kept in init; step() returns the next Parameter.   *)

Fixed(v) == [kind |-> "Fixed", init |-> v, final_ |-> v, decay |-> One]
Exponential(i, f, d) == [kind |-> "Exponential", init |-> i, final_ |-> f, decay |-> d]

value(p) == p.init

step(p) ==
    IF p.kind = "Fixed" THEN p
    ELSE LET nxt == RMul(p.init, p.decay)
         IN  [p EXCEPT !.init =
                 IF RLt(p.final_, p.init) THEN RMax(nxt, p.final_)
                 ELSE IF RLt(p.init, p.final_) THEN RMin(nxt, p.final_)
                 ELSE p.final_]

RECURSIVE StepN(_, _)
StepN(p, k) == IF k = 0 THEN p ELSE step(StepN(p, k - 1))

----------------------------------------------------------------------------
(* Projector / Projection: phi(s) is Dense (a vector) or Sparse (the set   *)
(* of active feature indices); expanded() turns either into a vector.      *)

Dense(vec) == [kind |-> "Dense", dense |-> vec, sparse |-> {}]
Sparse(idx) == [kind |-> "Sparse", dense |-> [f \in Features |-> Zero], sparse |-> idx]

project(s) ==
    IF s = 1 THEN Sparse({1})
    ELSE Dense([f \in Features |-> IF f = 1 THEN One ELSE R(2, 1)])

expanded(phi) ==
    IF phi.kind = "Dense" THEN phi.dense
    ELSE [f \in Features |-> IF f \in phi.sparse THEN One ELSE Zero]

----------------------------------------------------------------------------
(* VectorLFA as a QFunction: weights[a] is the column of action a.         *)

evaluate_action_phi(weights, phi, action) ==
    LET col == weights[action]
    IN  IF phi.kind = "Dense"
        THEN RSum([f \in Features |-> RMul(col[f], phi.dense[f])], Features)
        ELSE RSum(col, phi.sparse)

evaluate_phi(weights, phi) ==
    [a \in Actions |-> evaluate_action_phi(weights, phi, a)]

evaluate(weights, s) == evaluate_phi(weights, project(s))

evaluate_action(weights, s, action) ==
    evaluate_action_phi(weights, project(s), action)

(* faulty variant: the update is applied to the column of every action *)
update_action_phi_every_action(weights, phi, action, update) ==
    [a \in Actions |->
        IF phi.kind = "Dense"
        THEN [f \in Features |-> RAdd(weights[a][f], RMul(update, phi.dense[f]))]
        ELSE [f \in Features |->
                 IF f \in phi.sparse THEN RAdd(weights[a][f], update) ELSE weights[a][f]]]

(* faulty variant: a dense projection is treated as its set of non-zero indices *)
update_action_phi_indices(weights, phi, action, update) ==
    [weights EXCEPT ![action] =
        [f \in Features |->
            IF (phi.kind = "Dense" /\ phi.dense[f] /= Zero) \/ f \in phi.sparse
            THEN RAdd(@[f], update) ELSE @[f]]]

update_action_phi(weights, phi, action, update) ==
    [weights EXCEPT ![action] =
        IF phi.kind = "Dense"
        THEN [f \in Features |-> RAdd(@[f], RMul(update, phi.dense[f]))]
        ELSE [f \in Features |-> IF f \in phi.sparse THEN RAdd(@[f], update) ELSE @[f]]]

----------------------------------------------------------------------------
(* Trace: {weights, lambda}.                                               *)

TraceDecay(tr, rate) ==
    [tr EXCEPT !.weights = [f \in Features |-> RMul(rate, tr.weights[f])]]

TraceUpdate(tr, vec) ==
    [tr EXCEPT !.weights = [f \in Features |-> RAdd(tr.weights[f], vec[f])]]

TraceGet(tr) == tr.weights

----------------------------------------------------------------------------
(* Greedy: an action of maximal value; which one among equals is left open *)

Argmaxima(qs) == {a \in DOMAIN qs : \A b \in DOMAIN qs : RLe(qs[b], qs[a])}

GreedySample(weights, s) == Argmaxima(evaluate(weights, s))

----------------------------------------------------------------------------
(* Shared<T>: a cell with runtime-checked borrows.  A call is replayed as  *)
(* the sequence of borrow events it performs; borrow() panics while a      *)
(* mutable borrow is live, borrow_mut() panics while any borrow is live.   *)

CellNames == {"fa_theta", "policy", "v_func"}

NoBorrows == [c \in CellNames |-> [readers |-> 0, writer |-> FALSE]]

Rest == [live |-> NoBorrows, conflict |-> FALSE, peakMut |-> 0]

Borrow(c) == <<"borrow", c>>
Drop(c) == <<"drop", c>>
BorrowMut(c) == <<"borrow_mut", c>>
DropMut(c) == <<"drop_mut", c>>

LiveMut(live) == Cardinality({c \in CellNames : live[c].writer})

BorrowEvent(st, e) ==
    LET c == e[2]
        cell == st.live[c]
    IN  CASE e[1] = "borrow" ->
               IF cell.writer THEN [st EXCEPT !.conflict = TRUE]
               ELSE [st EXCEPT !.live[c].readers = @ + 1]
          [] e[1] = "drop" -> [st EXCEPT !.live[c].readers = @ - 1]
          [] e[1] = "borrow_mut" ->
               IF cell.writer \/ cell.readers > 0 THEN [st EXCEPT !.conflict = TRUE]
               ELSE LET l == [st.live EXCEPT ![c].writer = TRUE]
                    IN  [st EXCEPT !.live = l,
                                   !.peakMut = IF LiveMut(l) > @ THEN LiveMut(l) ELSE @]
          [] e[1] = "drop_mut" -> [st EXCEPT !.live[c].writer = FALSE]

RECURSIVE RunBorrows(_, _)
RunBorrows(st, script) ==
    IF script = <<>> \/ st.conflict THEN st
    ELSE RunBorrows(BorrowEvent(st, Head(script)), Tail(script))

Call(script) == RunBorrows(Rest, script)

(* Greedy holds a clone of the shared approximator and reads it *)
GreedySampleBorrows == <<Borrow("fa_theta"), Drop("fa_theta")>>

(* faulty variant: the read borrow of the projector is kept in a binding   *)
(* that is still live when the weights are updated                        *)
HandleSampleBorrowsHeld ==
    <<Borrow("fa_theta")>>
    \o <<Borrow("fa_theta"), Drop("fa_theta")>>
    \o <<Borrow("fa_theta"), Drop("fa_theta")>>
    \o GreedySampleBorrows
    \o GreedySampleBorrows
    \o <<BorrowMut("fa_theta"), DropMut("fa_theta")>>
    \o <<Drop("fa_theta")>>

HandleSampleBorrows ==
    <<Borrow("fa_theta"), Drop("fa_theta")>>          \* projector.project(s)
    \o <<Borrow("fa_theta"), Drop("fa_theta")>>       \* evaluate_phi(&phi_s)
    \o <<Borrow("fa_theta"), Drop("fa_theta")>>       \* evaluate(ns)
    \o GreedySampleBorrows                            \* target.sample(&ns)
    \o GreedySampleBorrows                            \* target.sample(&s)
    \o <<Borrow("fa_theta"), Drop("fa_theta")>>       \* projector.dim()
    \o <<BorrowMut("fa_theta"), DropMut("fa_theta")>> \* update_action_phi

HandleTerminalBorrows == <<BorrowMut("policy"), DropMut("policy")>>

SampleTargetBorrows == GreedySampleBorrows

(* the behaviour policy reads the approximator it shares while it is borrowed *)
SampleBehaviourBorrows ==
    <<BorrowMut("policy")>> \o GreedySampleBorrows \o <<DropMut("policy")>>

PredictQsBorrows == <<Borrow("fa_theta"), Drop("fa_theta")>>

PredictQsaBorrows == <<Borrow("fa_theta"), Drop("fa_theta")>>

PredictVBorrows == SampleTargetBorrows \o PredictQsaBorrows

BatchItemBorrows ==
    <<Borrow("v_func"), Drop("v_func")>>              \* v_func.evaluate(s)
    \o <<BorrowMut("v_func"), DropMut("v_func")>>     \* borrow_mut().update

RECURSIVE HandleBatchBorrows(_)
HandleBatchBorrows(n) ==
    IF n = 0 THEN <<>> ELSE BatchItemBorrows \o HandleBatchBorrows(n - 1)

----------------------------------------------------------------------------
(* QLambda *)

Rat(n) == R(n, 1)

TdError(weights, gam, t, na) ==
    LET qs == evaluate_phi(weights, project(t.from))
        nqs == evaluate(weights, t.to)
    IN  RSub(RAdd(Rat(t.reward), RMul(value(gam), nqs[na])), qs[t.action])

(* faulty variant: the trace is never cut *)
TraceRateNoCut(tr, gam, action, greedy) == RMul(value(tr.lambda), value(gam))

TraceRate(tr, gam, action, greedy) ==
    IF action = greedy THEN RMul(value(tr.lambda), value(gam)) ELSE Zero

(* faulty variant: phi(s) is accumulated before the decay *)
TraceStepAccumulateFirst(tr, rate, phi_s) ==
    TraceDecay(TraceUpdate(tr, expanded(phi_s)), rate)

TraceStep(tr, rate, phi_s) == TraceUpdate(TraceDecay(tr, rate), expanded(phi_s))

QLambdaHandleSample(self, t, na, greedy) ==
    LET phi_s == project(t.from)
        td_error == TdError(self.fa_theta, self.gamma, t, na)
        rate == TraceRate(self.trace, self.gamma, t.action, greedy)
        tr == TraceStep(self.trace, rate, phi_s)
    IN  [fa_theta |-> update_action_phi(self.fa_theta, Dense(TraceGet(tr)), t.action,
                                        RMul(td_error, value(self.alpha))),
         trace |-> tr,
         alpha |-> self.alpha,
         gamma |-> self.gamma,
         rate |-> rate]

(* faulty variant: the trace survives the terminal transition *)
QLambdaHandleTerminalKeepTrace(self) ==
    [self EXCEPT !.alpha = step(@), !.gamma = step(@)]

QLambdaHandleTerminal(self) ==
    [self EXCEPT !.alpha = step(@),
                 !.gamma = step(@),
                 !.trace = TraceDecay(@, Zero)]

----------------------------------------------------------------------------
(* Partitions: one row of weights per partition cell; a state of the model *)
(* is its cell.                                                            *)

PartitionsEvaluate(weights, s) == weights[s]

PartitionsUpdate(weights, s, errors) ==
    [weights EXCEPT ![s] = [a \in DOMAIN @ |-> RAdd(@[a], RMul(One, errors[a]))]]

PartitionsEvaluateScalar(weights, s) == weights[s]

PartitionsUpdateScalar(weights, s, error) == [weights EXCEPT ![s] = RAdd(@, error)]

----------------------------------------------------------------------------
(* Partitions over a RegularSpace<Partition>: the row of an input is found *)
(* by hash. A dimension is [lb, ub, density]; an input is a sequence of    *)
(* rationals, one per dimension.                                           *)

MaxUpdates == 2
NOutputs == 1

Partition(lb, ub, n) == [lb |-> lb, ub |-> ub, density |-> n]

density(d) == d.density

(* the partition of d that holds v: the range [lb, ub] is cut into density *)
(* equal parts, values at or beyond a bound fall into the first / last one *)
to_partition(d, v) ==
    IF v[1] <= d.lb * v[2] THEN 0
    ELSE IF v[1] >= d.ub * v[2] THEN d.density - 1
    ELSE ((v[1] - d.lb * v[2]) * d.density) \div (v[2] * (d.ub - d.lb))

RECURSIVE span(_)
span(space) == IF space = <<>> THEN 1 ELSE density(Head(space)) * span(Tail(space))

(* faulty variant: the accumulator and the index change places *)
hash_step_swapped(d, v, acc) == density(d) * to_partition(d, v) + acc

(* the closure folded over the dimensions *)
hash_step(d, v, acc) == to_partition(d, v) + density(d) * acc

(* in_it.zip(d_it).fold(acc, ..): dimensions k, k - 1, .., 1 are still to  *)
(* come, both iterators run from the back                                  *)
RECURSIVE hash_fold(_, _, _, _)
hash_fold(space, input, k, acc) ==
    IF k = 0 THEN acc
    ELSE hash_fold(space, input, k - 1, hash_step(space[k], input[k], acc))

hash(space, input) ==
    LET n == Len(space)
    IN  hash_fold(space, input, n - 1, to_partition(space[n], input[n]))

PartitionsNew(input_space, n_outputs) ==
    [space |-> input_space,
     weights |-> [i \in 0..(span(input_space) - 1) |-> [o \in 1..n_outputs |-> Zero]],
     fault |-> "none"]

(* Function<[f64], f64>::evaluate: weights[[index, 0]], a checked access   *)
Partitions_evaluate(self, input) ==
    LET index == hash(self.space, input)
    IN  IF index \in DOMAIN self.weights
        THEN [panic |-> FALSE, out |-> PartitionsEvaluate(self.weights, index)[1]]
        ELSE [panic |-> TRUE, out |-> Zero]

(* Function<[f64], Vec<f64>>::evaluate: the whole row *)
Partitions_evaluate_vec(self, input) ==
    LET index == hash(self.space, input)
    IN  IF index \in DOMAIN self.weights
        THEN [panic |-> FALSE, out |-> PartitionsEvaluate(self.weights, index)]
        ELSE [panic |-> TRUE, out |-> <<>>]

(* Parameterised<[f64], f64>::update: an unchecked write (uget_mut); with  *)
(* an index outside the array its behaviour is undefined: the process may  *)
(* go on with memory overwritten or be stopped. The set of outcomes.       *)
Partitions_update(self, input, error) ==
    LET index == hash(self.space, input)
    IN  IF index \in DOMAIN self.weights
        THEN {[self EXCEPT !.weights[index][1] = RAdd(@, error)]}
        ELSE {[self EXCEPT !.fault = f] : f \in {"overwritten", "stopped"}}

(* Parameterised<[f64], Vec<f64>>::update: row_mut(index), a checked access *)
Partitions_update_vec(self, input, errors) ==
    LET index == hash(self.space, input)
    IN  IF index \in DOMAIN self.weights
        THEN {[self EXCEPT !.weights = PartitionsUpdate(@, index, errors)]}
        ELSE {[self EXCEPT !.fault = "panic"]}

----------------------------------------------------------------------------
(* MountainCar (domains/mountain_car/discrete.rs): self is [x, v]          *)

MaxSteps == 3

X_MIN == R(-12, 10)
X_MAX == R(6, 10)

V_MIN == R(-7, 100)
V_MAX == R(7, 100)

FORCE_G == R(-25, 10000)
FORCE_CAR == R(1, 1000)

HILL_FREQ == 3

REWARD_STEP == -1
REWARD_GOAL == 0

(* indexed from 0 in the code *)
ALL_ACTIONS == [a \in 0..2 |-> a - 1]

(* clip!(lo, x, hi) *)
clip(lo, x, hi) == RMin(RMax(x, lo), hi)

(* f64::cos has no rational value: of cos(y) the model keeps that it lies  *)
(* in [-1, 1], any of these points may be taken                            *)
cos(y) == {R(-1, 1), Zero, One}

(* the values FORCE_CAR * a + FORCE_G * (HILL_FREQ * x).cos() may take *)
dv(x, a) ==
    {RAdd(RMul(FORCE_CAR, Rat(a)), RMul(FORCE_G, c)) : c \in cos(RMul(Rat(HILL_FREQ), x))}

(* the states update_state may leave *)
update_state(self, a) ==
    {LET v == clip(V_MIN, RAdd(self.v, d), V_MAX)
         x == clip(X_MIN, RAdd(self.x, v), X_MAX)
     IN  [x |-> x, v |-> v] : d \in dv(self.x, ALL_ACTIONS[a])}

(* faulty variant: the goal must be passed, not just reached *)
is_terminal_strict(self) == RLt(X_MAX, self.x)

is_terminal(self) == RLe(X_MAX, self.x)

emit(self) ==
    IF is_terminal(self)
    THEN [kind |-> "Terminal", s |-> <<self.x, self.v>>]
    ELSE [kind |-> "Full", s |-> <<self.x, self.v>>]

set_state(self, state) == [x |-> state[1], v |-> state[2]]

reward(from, to) == IF to.kind = "Terminal" THEN REWARD_GOAL ELSE REWARD_STEP

(* the outcomes of step: the state left and the Transition returned *)
step_car(self, action) ==
    {[self |-> after,
      t |-> [from |-> emit(self), action |-> action,
             reward |-> reward(emit(self), emit(after)), to |-> emit(after)]] :
        after \in update_state(self, action)}

----------------------------------------------------------------------------
(* GradientMC *)

(* faulty variant: the batch is visited first transition first *)
BatchOrderForward(n) == [k \in 1..n |-> k]

(* batch.into_iter().rev(): the k-th transition visited *)
BatchOrder(n) == [k \in 1..n |-> n + 1 - k]

BatchItem(acc, t, al, gam) ==
    LET sum == RAdd(Rat(t.reward), RMul(value(gam), acc.sum))
        s == t.from
        v_est == PartitionsEvaluateScalar(acc.v_func, s)
    IN  [sum |-> sum,
         v_func |-> PartitionsUpdateScalar(acc.v_func, s,
                                           RMul(value(al), RSub(sum, v_est))),
         returns |-> Append(acc.returns, sum)]

RECURSIVE BatchFold(_, _, _, _, _)
BatchFold(acc, batch, k, al, gam) ==
    IF k > Len(batch) THEN acc
    ELSE BatchFold(BatchItem(acc, batch[BatchOrder(Len(batch))[k]], al, gam),
                   batch, k + 1, al, gam)

(* the value function after the batch, and the sums in the order computed *)
GradientMCHandleBatch(self, batch) ==
    BatchFold([sum |-> Zero, v_func |-> self.v_func, returns |-> <<>>],
              batch, 1, self.alpha, self.gamma)

(* faulty variant: gamma is not advanced *)
GradientMCHandleTerminalAlphaOnly(self) == [self EXCEPT !.alpha = step(@)]

GradientMCHandleTerminal(self) ==
    [self EXCEPT !.alpha = step(@), !.gamma = step(@)]

----------------------------------------------------------------------------
(* QLearning and SARSA (agents/td_zero.rs) *)

TDAlpha == R(10, 100)
TDGamma == R(95, 100)

TDErrors(qs, nqs, t, na) ==
    [a \in DOMAIN qs |->
        IF a = t.action
        THEN RMul(TDAlpha, RSub(RAdd(Rat(t.reward), RMul(TDGamma, nqs[na])), qs[a]))
        ELSE Zero]

(* faulty variant: the target uses the exploration policy's choice *)
QLearningHandleExplored(q, t, greedy, explored) ==
    LET qs == PartitionsEvaluate(q, t.from)
        nqs == PartitionsEvaluate(q, t.to)
        na == explored
    IN  [q_func |-> PartitionsUpdate(q, t.from, TDErrors(qs, nqs, t, na)),
         na |-> na,
         ret |-> explored]

(* greedy: the greedy policy's choice over nqs; explored: the exploration  *)
(* policy's choice over qs, which is returned                              *)
QLearningHandle(q, t, greedy, explored) ==
    LET qs == PartitionsEvaluate(q, t.from)
        nqs == PartitionsEvaluate(q, t.to)
        na == greedy
    IN  [q_func |-> PartitionsUpdate(q, t.from, TDErrors(qs, nqs, t, na)),
         na |-> na,
         ret |-> explored]

(* first: policy.sample(nqs); second: policy.sample(qs), which is returned *)
SARSAHandle(q, t, first, second) ==
    LET qs == PartitionsEvaluate(q, t.from)
        nqs == PartitionsEvaluate(q, t.to)
        na == first
    IN  [q_func |-> PartitionsUpdate(q, t.from, TDErrors(qs, nqs, t, na)),
         na |-> na,
         ret |-> second]

----------------------------------------------------------------------------
(* The state machine *)

Transitions == [from : States, action : Actions, reward : Rewards, to : States]

NoTransition == [from |-> 0, action |-> 0, reward |-> 0, to |-> 0]

(* an episode: each transition leads to the next one's state; handle_batch  *)
(* is given episodes of at most MaxBatch transitions in all                 *)
Episode(f) ==
    [i \in DOMAIN f |->
        [from |-> f[i][1], action |-> 0, reward |-> f[i][2],
         to |-> IF i < Len(f) THEN f[i + 1][1] ELSE f[i][1]]]

BatchesOfLen ==
    [n \in 1..MaxBatch |-> {Episode(f) : f \in [1..n -> States \X BatchRewards]}]

ZeroTheta == [a \in Actions |-> [f \in Features |-> Zero]]
ZeroVec == [f \in Features |-> Zero]
ZeroV == [s \in States |-> Zero]
ZeroQ == [s \in States |-> [a \in Actions |-> Zero]]

QLambdaConfigs ==
    {[alpha |-> Exponential(One, R(1, 4), Half),
      gamma |-> Exponential(Half, One, R(2, 1)),
      lambda |-> Exponential(One, R(1, 4), Half)]}

GradientMCConfigs ==
    {[alpha |-> Exponential(Half, R(1, 8), Half), gamma |-> Fixed(Half), lambda |-> Fixed(Zero)],
     [alpha |-> Fixed(Half), gamma |-> Exponential(One, R(1, 4), Half), lambda |-> Fixed(Zero)]}

Data ==
    [fa_theta |-> fa_theta, trace |-> trace, alpha |-> alpha, gamma |-> gamma,
     v_func |-> v_func, q_func |-> q_func]

NoSample == [target |-> 0, greedy |-> 0, na |-> 0]

(* no Partitions object and no domain has been built *)
NoApproximator ==
    /\ part = [space |-> <<>>, weights |-> <<>>, fault |-> "none"]
    /\ ledger = <<>>
    /\ probe = "none"
    /\ nUpdates = 0

NoDomain ==
    /\ car = <<>>
    /\ hop = <<>>
    /\ nSteps = 0

InitCommon ==
    /\ fa_theta = ZeroTheta
    /\ trace = [weights |-> ZeroVec, lambda |-> cfg.lambda]
    /\ alpha = cfg.alpha
    /\ gamma = cfg.gamma
    /\ v_func = ZeroV
    /\ q_func = ZeroQ
    /\ cells = Rest
    /\ op = "new"
    /\ lastT = NoTransition
    /\ lastB = <<>>
    /\ sampled = NoSample
    /\ ret = <<>>
    /\ prev = Data
    /\ nSamples = 0
    /\ nTerminals = 0
    /\ episodeLen = 0
    /\ eligible = {}
    /\ fwd = [target |-> 0, policy |-> 0]

Init ==
    /\ algo \in {"QLambda", "GradientMC"}
    /\ cfg \in (IF algo = "QLambda" THEN QLambdaConfigs ELSE GradientMCConfigs)
    /\ InitCommon
    /\ NoApproximator
    /\ NoDomain

Running == ~cells.conflict

(* a call that panics on a borrow conflict changes nothing else *)
Panic(name, c) ==
    /\ cells' = c
    /\ op' = name
    /\ prev' = Data
    /\ UNCHANGED <<approximator, domain>>
    /\ UNCHANGED <<algo, cfg, fa_theta, trace, alpha, gamma, v_func, q_func, lastT,
                   lastB, sampled, ret, nSamples, nTerminals, episodeLen, eligible,
                   fwd>>

HandleSample(t) ==
    /\ algo = "QLambda"
    /\ Running
    /\ nSamples < MaxSamples
    /\ \E c \in {Call(HandleSampleBorrows)} :
           IF c.conflict THEN Panic("handle_sample", c)
           ELSE \E na \in GreedySample(fa_theta, t.to),
                   greedy \in GreedySample(fa_theta, t.from) :
                   \E self \in {QLambdaHandleSample(Data, t, na, greedy)} :
                       /\ fa_theta' = self.fa_theta
                       /\ trace' = self.trace
                       /\ alpha' = self.alpha
                       /\ gamma' = self.gamma
                       /\ sampled' = [target |-> na, greedy |-> greedy, na |-> na]
                       /\ cells' = c
                       /\ op' = "handle_sample"
                       /\ lastT' = t
                       /\ prev' = Data
                       /\ UNCHANGED <<approximator, domain>>
                       /\ nSamples' = nSamples + 1
                       /\ episodeLen' = episodeLen + 1
                       /\ eligible' = (IF self.rate = Zero THEN {} ELSE eligible)
                                           \cup {t.action}
                       /\ UNCHANGED <<algo, cfg, v_func, q_func, lastB, ret,
                                      nTerminals, fwd>>

HandleTerminal ==
    /\ algo = "QLambda"
    /\ Running
    /\ nTerminals < MaxTerminals
    /\ \E c \in {Call(HandleTerminalBorrows)}, self \in {QLambdaHandleTerminal(Data)} :
           IF c.conflict THEN Panic("handle_terminal", c)
           ELSE /\ alpha' = self.alpha
                /\ gamma' = self.gamma
                /\ trace' = self.trace
                /\ fa_theta' = self.fa_theta
                /\ fwd' = [target |-> fwd.target + 1, policy |-> fwd.policy + 1]
                /\ cells' = c
                /\ op' = "handle_terminal"
                /\ prev' = Data
                /\ UNCHANGED <<approximator, domain>>
                /\ nTerminals' = nTerminals + 1
                /\ episodeLen' = 0
                /\ eligible' = {}
                /\ UNCHANGED <<algo, cfg, v_func, q_func, lastT, lastB, sampled, ret,
                               nSamples>>

(* the read-only calls, Controller and Predictor: their arguments (a state,  *)
(* an action) and the terminal transition change nothing the model keeps   *)
Query(name, script) ==
    /\ algo = "QLambda"
    /\ Running
    /\ cells' = Call(script)
    /\ op' = name
    /\ prev' = Data
    /\ UNCHANGED <<approximator, domain>>
    /\ UNCHANGED <<algo, cfg, fa_theta, trace, alpha, gamma, v_func, q_func, lastT,
                   lastB, sampled, ret, nSamples, nTerminals, episodeLen, eligible,
                   fwd>>

SampleTarget == Query("sample_target", SampleTargetBorrows)

SampleBehaviour == Query("sample_behaviour", SampleBehaviourBorrows)

PredictV == Query("predict_v", PredictVBorrows)

PredictQs == Query("predict_qs", PredictQsBorrows)

PredictQsa == Query("predict_qsa", PredictQsaBorrows)

HandleBatch ==
    /\ algo = "GradientMC"
    /\ Running
    /\ \E n \in 1..(MaxBatch - nSamples) :
       \E batch \in BatchesOfLen[n] :
       \E c \in {Call(HandleBatchBorrows(Len(batch)))},
          out \in {GradientMCHandleBatch(Data, batch)} :
           IF c.conflict THEN Panic("handle_batch", c)
           ELSE /\ v_func' = out.v_func
                /\ ret' = out.returns
                /\ cells' = c
                /\ op' = "handle_batch"
                /\ lastB' = batch
                /\ prev' = Data
                /\ UNCHANGED <<approximator, domain>>
                /\ nSamples' = nSamples + Len(batch)
                /\ UNCHANGED <<algo, cfg, fa_theta, trace, alpha, gamma, q_func, lastT,
                               sampled, nTerminals, episodeLen, eligible,
                   fwd>>

MCHandleTerminal ==
    /\ algo = "GradientMC"
    /\ Running
    /\ nTerminals < MaxTerminals
    /\ \E self \in {GradientMCHandleTerminal(Data)} :
           /\ alpha' = self.alpha
           /\ gamma' = self.gamma
           /\ op' = "handle_terminal"
           /\ prev' = Data
           /\ UNCHANGED <<approximator, domain>>
           /\ nTerminals' = nTerminals + 1
           /\ UNCHANGED <<algo, cfg, fa_theta, trace, v_func, q_func, cells, lastT,
                          lastB, sampled, ret, nSamples, episodeLen, eligible,
                   fwd>>

MCPredictV ==
    /\ algo = "GradientMC"
    /\ Running
    /\ cells' = Call(<<Borrow("v_func"), Drop("v_func")>>)
    /\ op' = "predict_v"
    /\ prev' = Data
    /\ UNCHANGED <<approximator, domain>>
    /\ UNCHANGED <<algo, cfg, fa_theta, trace, alpha, gamma, v_func, q_func, lastT,
                   lastB, sampled, ret, nSamples, nTerminals, episodeLen, eligible,
                   fwd>>

Next ==
    \/ \E t \in Transitions : HandleSample(t)
    \/ HandleTerminal
    \/ SampleTarget
    \/ SampleBehaviour
    \/ PredictV
    \/ PredictQs
    \/ PredictQsa
    \/ HandleBatch
    \/ MCHandleTerminal
    \/ MCPredictV

Spec == Init /\ [][Next]_vars

----------------------------------------------------------------------------
(* The agents of agents/td_zero.rs, driven with arbitrary transitions.     *)
(* The exploration / behaviour policy is any policy: each sample() may     *)
(* return any action.                                                      *)

InitTD ==
    /\ algo \in {"QLearning", "SARSA"}
    /\ cfg = [alpha |-> Fixed(TDAlpha), gamma |-> Fixed(TDGamma), lambda |-> Fixed(Zero)]
    /\ InitCommon
    /\ NoApproximator
    /\ NoDomain

TDStep(name, t, out) ==
    /\ q_func' = out.q_func
    /\ sampled' = [target |-> out.na, greedy |-> 0, na |-> out.na]
    /\ ret' = <<out.ret>>
    /\ op' = name
    /\ lastT' = t
    /\ prev' = Data
    /\ UNCHANGED <<approximator, domain>>
    /\ nSamples' = nSamples + 1
    /\ UNCHANGED <<algo, cfg, fa_theta, trace, alpha, gamma, v_func, cells, lastB,
                   nTerminals, episodeLen, eligible,
                   fwd>>

QLearningStep(t) ==
    /\ algo = "QLearning"
    /\ nSamples < MaxHandles
    /\ \E greedy \in Argmaxima(PartitionsEvaluate(q_func, t.to)), explored \in Actions :
           \E out \in {QLearningHandle(q_func, t, greedy, explored)} :
               TDStep("QLearning.handle", t, out)

SARSAStep(t) ==
    /\ algo = "SARSA"
    /\ nSamples < MaxHandles
    /\ \E first \in Actions, second \in Actions :
           \E out \in {SARSAHandle(q_func, t, first, second)} :
               TDStep("SARSA.handle", t, out)

NextTD ==
    \/ \E t \in Transitions : QLearningStep(t)
    \/ \E t \in Transitions : SARSAStep(t)

SpecTD == InitTD /\ [][NextTD]_vars

----------------------------------------------------------------------------
(* A Partitions approximator on its own (fa/partitions.rs), built over a   *)
(* space of one, two or three dimensions and driven with arbitrary inputs  *)
(* and errors.                                                             *)

Spaces ==
    {<<Partition(0, 4, 2)>>,
     <<Partition(0, 4, 2), Partition(0, 3, 3)>>,
     <<Partition(0, 2, 2), Partition(0, 3, 3), Partition(0, 2, 2)>>}

(* the inputs tried: the whole numbers of each dimension's range *)
InputsOf ==
    [sp \in Spaces |->
        {x \in [1..Len(sp) -> {Rat(k) : k \in 0..4}] :
            \A k \in 1..Len(sp) : RLe(x[k], Rat(sp[k].ub))}]

Errors == {One, R(-1, 2)}

(* the cell of an input: its partition in every dimension *)
CellOf(space, x) == [k \in 1..Len(space) |-> to_partition(space[k], x[k])]

CellsOf ==
    [sp \in Spaces |->
        {c \in [1..Len(sp) -> 0..2] : \A k \in 1..Len(sp) : c[k] < density(sp[k])}]

InitPartitions ==
    /\ algo = "Partitions"
    /\ cfg = [alpha |-> Fixed(Zero), gamma |-> Fixed(Zero), lambda |-> Fixed(Zero)]
    /\ InitCommon
    /\ NoDomain
    /\ \E sp \in Spaces :
           /\ part = PartitionsNew(sp, NOutputs)
           /\ ledger = [c \in CellsOf[sp] |-> Zero]
    /\ probe = "new"
    /\ nUpdates = 0

Updated(self, x, error) ==
    /\ part' = self
    /\ ledger' = [ledger EXCEPT ![CellOf(part.space, x)] = RAdd(@, error)]
    /\ probe' = "update"
    /\ nUpdates' = nUpdates + 1
    /\ UNCHANGED <<engine, domain>>

PartitionsUpdateCall(x, error) ==
    /\ part.fault = "none"
    /\ nUpdates < MaxUpdates
    /\ \E self \in Partitions_update(part, x, error) : Updated(self, x, error)

PartitionsUpdateVecCall(x, error) ==
    /\ part.fault = "none"
    /\ nUpdates < MaxUpdates
    /\ \E self \in Partitions_update_vec(part, x, [o \in 1..NOutputs |-> error]) :
           Updated(self, x, error)

(* evaluate takes &self: it changes nothing unless the access panics; what *)
(* it returns for an input is the value of the operator                    *)
Evaluated(name, r) ==
    /\ part' = (IF r.panic THEN [part EXCEPT !.fault = "panic"] ELSE part)
    /\ probe' = name
    /\ UNCHANGED <<ledger, nUpdates, engine, domain>>

PartitionsEvaluateCall(x) ==
    /\ part.fault = "none"
    /\ Evaluated("evaluate", Partitions_evaluate(part, x))

PartitionsEvaluateVecCall(x) ==
    /\ part.fault = "none"
    /\ Evaluated("evaluate_vec", Partitions_evaluate_vec(part, x))

NextPartitions ==
    \/ \E x \in InputsOf[part.space], error \in Errors : PartitionsUpdateCall(x, error)
    \/ \E x \in InputsOf[part.space], error \in Errors : PartitionsUpdateVecCall(x, error)
    \/ \E x \in InputsOf[part.space] : PartitionsEvaluateCall(x)
    \/ \E x \in InputsOf[part.space] : PartitionsEvaluateVecCall(x)

SpecPartitions == InitPartitions /\ [][NextPartitions]_vars

----------------------------------------------------------------------------
(* A MountainCar domain on its own, started or set anywhere inside the     *)
(* bounds of its state space and stepped with arbitrary actions.           *)

CarActions == DOMAIN ALL_ACTIONS

(* the default state, the corners and the neighbourhood of the goal *)
CarStates ==
    {<<R(-1, 2), Zero>>, <<X_MIN, V_MIN>>, <<R(55, 100), V_MAX>>,
     <<X_MAX, V_MIN>>, <<X_MAX, Zero>>}

NoTrip == [from |-> <<>>, action |-> 0, reward |-> 0, to |-> <<>>]

InitCar ==
    /\ algo = "MountainCar"
    /\ cfg = [alpha |-> Fixed(Zero), gamma |-> Fixed(Zero), lambda |-> Fixed(Zero)]
    /\ InitCommon
    /\ NoApproximator
    /\ \E state \in CarStates : car = [x |-> state[1], v |-> state[2]]
    /\ hop = [call |-> "new", before |-> car, t |-> NoTrip]
    /\ nSteps = 0

Step(action) ==
    /\ nSteps < MaxSteps
    /\ \E out \in step_car(car, action) :
           /\ car' = out.self
           /\ hop' = [call |-> "step", before |-> car, t |-> out.t]
    /\ nSteps' = nSteps + 1
    /\ UNCHANGED <<engine, approximator>>

SetState(state) ==
    /\ car' = set_state(car, state)
    /\ hop' = [call |-> "set_state", before |-> car, t |-> NoTrip]
    /\ UNCHANGED <<nSteps, engine, approximator>>

NextCar ==
    \/ \E action \in CarActions : Step(action)
    \/ \E state \in CarStates : SetState(state)

SpecCar == InitCar /\ [][NextCar]_vars

----------------------------------------------------------------------------
(* Properties *)

VecOf(s) == expanded(project(s))

MaxOf(qs) == CHOOSE x \in {qs[a] : a \in DOMAIN qs} : \A b \in DOMAIN qs : RLe(qs[b], x)

Sampled == algo = "QLambda" /\ op = "handle_sample"

(* the greedy actions at the from-state, over the weights before the update *)
GreedyBefore == Argmaxima(evaluate(prev.fa_theta, lastT.from))

RateBefore == RMul(value(prev.trace.lambda), value(prev.gamma))

(* C1: after a handle_sample whose executed action is not the greedy action *)
(* sampled at the from-state (a greedy action of the weights before the     *)
(* update), the trace is exactly phi(s), whatever it held before.           *)
C1_TraceCut ==
    Sampled =>
        /\ sampled.greedy \in GreedyBefore
        /\ lastT.action /= sampled.greedy => trace.weights = VecOf(lastT.from)

C1_Witness ==
    /\ Sampled
    /\ lastT.action \notin GreedyBefore
    /\ prev.trace.weights /= ZeroVec
    /\ prev.trace.weights /= VecOf(lastT.from)
    /\ trace.weights = VecOf(lastT.from)

(* C2: after a handle_sample whose executed action is the greedy action at  *)
(* the from-state, the trace is (lambda*gamma)*trace_prev + phi(s): the old *)
(* trace is decayed, then phi(s) is added undecayed.                        *)
C2_DecayThenAccumulate ==
    (Sampled /\ lastT.action = sampled.greedy) =>
        \A f \in Features :
            trace.weights[f] =
                RAdd(RMul(RateBefore, prev.trace.weights[f]), VecOf(lastT.from)[f])

C2_Witness ==
    /\ Sampled
    /\ lastT.action = sampled.greedy
    /\ prev.trace.weights /= ZeroVec
    /\ RateBefore = Half
    /\ \E f \in Features :
           /\ trace.weights[f] =
                  RAdd(RMul(RateBefore, prev.trace.weights[f]), VecOf(lastT.from)[f])
           /\ trace.weights[f] /=
                  RMul(RateBefore, RAdd(prev.trace.weights[f], VecOf(lastT.from)[f]))

(* delta = reward + gamma * max_a' Q(s')[a'] - Q(s)[a], over the weights    *)
(* before the update                                                        *)
DeltaBefore ==
    RSub(RAdd(Rat(lastT.reward),
              RMul(value(prev.gamma), MaxOf(evaluate(prev.fa_theta, lastT.to)))),
         evaluate(prev.fa_theta, lastT.from)[lastT.action])

AlphaDelta == RMul(value(prev.alpha), DeltaBefore)

(* C3: handle_sample adds alpha*delta*trace to the executed action's        *)
(* weights, with the trace as it is after this step's decay and             *)
(* accumulation and delta computed from the weights before the update; so   *)
(* every feature with a non-zero trace entry changes when alpha*delta /= 0. *)
C3_WeightUpdate ==
    Sampled =>
        \A f \in Features :
            /\ fa_theta[lastT.action][f] =
                   RAdd(prev.fa_theta[lastT.action][f],
                        RMul(AlphaDelta, trace.weights[f]))
            /\ (trace.weights[f] /= Zero /\ AlphaDelta /= Zero)
                   => fa_theta[lastT.action][f] /= prev.fa_theta[lastT.action][f]

C3_Witness ==
    /\ Sampled
    /\ AlphaDelta /= Zero
    /\ \E f \in Features :
           /\ VecOf(lastT.from)[f] = Zero
           /\ trace.weights[f] /= Zero
           /\ fa_theta[lastT.action][f] /= prev.fa_theta[lastT.action][f]

(* C4: handle_terminal leaves every trace entry zero, and the first         *)
(* handle_sample after it yields the trace phi(s), greedy action or not.    *)
C4_TraceReset ==
    /\ (algo = "QLambda" /\ op = "handle_terminal") => trace.weights = ZeroVec
    /\ (Sampled /\ nTerminals >= 1 /\ episodeLen = 1)
           => trace.weights = VecOf(lastT.from)

C4_Witness ==
    /\ Sampled
    /\ nTerminals >= 1
    /\ episodeLen = 1
    /\ nSamples >= 2
    /\ lastT.action = sampled.greedy
    /\ RateBefore /= Zero
    /\ trace.weights = VecOf(lastT.from)

(* C5: alpha and gamma are their construction-time values advanced by one   *)
(* step() per handle_terminal call so far, and no other call changes them.  *)
C5_ParameterLifecycle ==
    algo \in {"QLambda", "GradientMC"} =>
        /\ alpha = StepN(cfg.alpha, nTerminals)
        /\ gamma = StepN(cfg.gamma, nTerminals)
        /\ op \notin {"new", "handle_terminal"}
               => alpha = prev.alpha /\ gamma = prev.gamma

C5_Witness ==
    /\ algo = "GradientMC"
    /\ op = "handle_batch"
    /\ nTerminals = 2
    /\ alpha = step(step(cfg.alpha))
    /\ alpha /= step(cfg.alpha)
    /\ step(cfg.alpha) /= cfg.alpha

(* C6: one handle_terminal of QLambda advances alpha, gamma and the trace's *)
(* lambda by one step() each.                                               *)
C6_AllParametersStepped ==
    (algo = "QLambda" /\ op = "handle_terminal") =>
        /\ alpha = step(prev.alpha)
        /\ gamma = step(prev.gamma)
        /\ trace.lambda = step(prev.trace.lambda)


QsBefore == PartitionsEvaluate(prev.q_func, lastT.from)
NqsBefore == PartitionsEvaluate(prev.q_func, lastT.to)

(* alpha * (reward + gamma * max nqs - qs[a]), over the values before the update *)
QLearningDelta ==
    RMul(TDAlpha,
         RSub(RAdd(Rat(lastT.reward), RMul(TDGamma, MaxOf(NqsBefore))),
              QsBefore[lastT.action]))

(* C7: what QLearning::handle does to the weights is fixed by the weights   *)
(* and the transition alone: the executed action's value at the from-state  *)
(* moves by alpha*(reward + gamma*max nqs - qs[a]), every other value stays, *)
(* whatever the exploration policy returns.                                 *)
C7_TargetIndependence ==
    op = "QLearning.handle" =>
        \A s \in States, a \in Actions :
            q_func[s][a] =
                IF s = lastT.from /\ a = lastT.action
                THEN RAdd(prev.q_func[s][a], QLearningDelta)
                ELSE prev.q_func[s][a]

C7_Witness ==
    /\ op = "QLearning.handle"
    /\ MaxOf(NqsBefore) /= Zero
    /\ ret[1] \notin Argmaxima(NqsBefore)
    /\ ret[1] \notin Argmaxima(QsBefore)
    /\ ret[1] /= sampled.na
    /\ q_func /= prev.q_func

(* C8: the action SARSA::handle uses in the TD target is the action it      *)
(* returns for the caller to execute next.                                  *)
C8_OnPolicy == op = "SARSA.handle" => ret[1] = sampled.na

RECURSIVE RPow(_, _)
RPow(x, n) == IF n = 0 THEN One ELSE RMul(x, RPow(x, n - 1))

(* G_i = sum over j >= i of gamma^(j-i) * reward_j *)
Return(batch, i, gam) ==
    RSum([j \in i..Len(batch) |-> RMul(RPow(gam, j - i), Rat(batch[j].reward))],
         i..Len(batch))

(* the values once the transitions i..n were visited, last first *)
RECURSIVE ValuesFrom(_, _, _, _, _)
ValuesFrom(v, batch, i, al, gam) ==
    IF i > Len(batch) THEN v
    ELSE LET later == ValuesFrom(v, batch, i + 1, al, gam)
             s == batch[i].from
         IN  [later EXCEPT ![s] = RAdd(@, RMul(al, RSub(Return(batch, i, gam), @)))]

BatchRewardsOf(batch) == [i \in DOMAIN batch |-> batch[i].reward]

(* C9: handle_batch visits the batch last transition first; the return it   *)
(* uses for transition i is G_i = sum_{j>=i} gamma^(j-i)*reward_j, and it    *)
(* moves V(s_i) by alpha*(G_i - V(s_i)) with V(s_i) as already updated for   *)
(* the later transitions; rewards [1,0,2] with gamma 1/2 give 2, 1, 3/2.     *)
C9_ReverseAccumulation ==
    (algo = "GradientMC" /\ op = "handle_batch") =>
        LET n == Len(lastB)
            gam == value(prev.gamma)
        IN  /\ Len(ret) = n
            /\ \A i \in 1..n : ret[n + 1 - i] = Return(lastB, i, gam)
            /\ v_func = ValuesFrom(prev.v_func, lastB, 1, value(prev.alpha), gam)
            /\ (BatchRewardsOf(lastB) = <<1, 0, 2>> /\ gam = Half)
                   => ret = <<R(2, 1), One, R(3, 2)>>

C9_Witness ==
    /\ algo = "GradientMC"
    /\ op = "handle_batch"
    /\ BatchRewardsOf(lastB) = <<1, 0, 2>>
    /\ value(prev.gamma) = Half
    /\ ret = <<R(2, 1), One, R(3, 2)>>
    /\ lastB[1].from = lastB[3].from
    /\ v_func[lastB[1].from] = R(5, 4)

(* C10: no call ever finds a cell borrowed in a conflicting way: no borrow  *)
(* conflict is raised, at most one mutable borrow is live at any instant of *)
(* a call, and every borrow is returned when the call ends.                 *)
C10_NoBorrowConflict ==
    algo \in {"QLambda", "GradientMC"} =>
        /\ ~cells.conflict
        /\ cells.peakMut <= 1
        /\ cells.live = NoBorrows

C10_Witness ==
    /\ Sampled
    /\ ~cells.conflict
    /\ cells.peakMut = 1
    /\ cells.live = NoBorrows
    /\ nSamples = 2

(* C13: handle_sample changes only the weight column of the executed       *)
(* action; the columns of all other actions are as they were before the    *)
(* call, also when the trace carries eligibility of earlier steps that     *)
(* were taken under other actions.                                         *)
C13_FrameCondition ==
    Sampled =>
        \A a \in Actions \ {lastT.action} : fa_theta[a] = prev.fa_theta[a]

(* the trace was not cut, it holds what an earlier step under another      *)
(* action left in it, and the executed action's column did change          *)
C13_Witness ==
    /\ Sampled
    /\ lastT.action = sampled.greedy
    /\ eligible \ {lastT.action} /= {}
    /\ RateBefore /= Zero
    /\ prev.trace.weights /= ZeroVec
    /\ trace.weights /= VecOf(lastT.from)
    /\ AlphaDelta /= Zero
    /\ fa_theta[lastT.action] /= prev.fa_theta[lastT.action]
    /\ \A a \in Actions \ {lastT.action} : fa_theta[a] = prev.fa_theta[a]

(* hash tells the cells of a space apart and stays inside the rows *)
HashSeparates ==
    [sp \in Spaces |->
        /\ \A x \in InputsOf[sp] : hash(sp, x) \in 0..(span(sp) - 1)
        /\ \A x, y \in InputsOf[sp] :
               hash(sp, x) = hash(sp, y) <=> CellOf(sp, x) = CellOf(sp, y)]

(* what evaluate returns for x, in either form *)
Reads(x, sum) ==
    /\ Partitions_evaluate(part, x) = [panic |-> FALSE, out |-> sum]
    /\ Partitions_evaluate_vec(part, x) =
           [panic |-> FALSE, out |-> [o \in 1..NOutputs |-> sum]]

(* C11: a Partitions approximator evaluates to 0 everywhere when built;     *)
(* after any updates, evaluate(x) is the sum of the errors of exactly the   *)
(* updates whose input lies in the cell of x, in one, two and three         *)
(* dimensions; hash maps distinct tuples of partition indices to distinct   *)
(* rows inside [0, n_features), also with different densities.              *)
C11_CellAccumulation ==
    algo = "Partitions" =>
        /\ part.fault = "none"
        /\ HashSeparates[part.space]
        /\ \A x \in InputsOf[part.space] :
               /\ Reads(x, ledger[CellOf(part.space, x)])
               /\ nUpdates = 0 => Reads(x, Zero)

(* three dimensions of different densities; two updates met in one cell,    *)
(* whose inputs read their sum after an evaluate, and every other cell      *)
(* reads 0                                                                  *)
C11_Witness ==
    /\ algo = "Partitions"
    /\ Len(part.space) = 3
    /\ nUpdates = 2
    /\ probe = "evaluate"
    /\ \E x, y \in InputsOf[part.space] :
           /\ x /= y
           /\ CellOf(part.space, x) = CellOf(part.space, y)
           /\ x[1] /= Zero /\ x[2] /= Zero /\ x[3] /= Zero
           /\ Reads(x, Half) /\ Reads(y, Half)
           /\ \A z \in InputsOf[part.space] :
                  CellOf(part.space, z) /= CellOf(part.space, x) => Reads(z, Zero)

(* the observation of a state: Terminal exactly at or beyond X_MAX *)
ObservationOf(st) ==
    [kind |-> IF RLe(X_MAX, st.x) THEN "Terminal" ELSE "Full", s |-> <<st.x, st.v>>]

InBounds(st) ==
    /\ RLe(X_MIN, st.x) /\ RLe(st.x, X_MAX)
    /\ RLe(V_MIN, st.v) /\ RLe(st.v, V_MAX)

(* C12: step returns a Transition whose from is the observation before the *)
(* move and whose to is the observation after it; an observation is        *)
(* Terminal exactly when the position is >= X_MAX and Full otherwise; the  *)
(* reward is REWARD_GOAL (0) exactly when to is Terminal and REWARD_STEP   *)
(* (-1) otherwise, whatever from is; and from a state inside the bounds    *)
(* the position stays in [X_MIN, X_MAX] and the velocity in [V_MIN, V_MAX].*)
C12_StepContract ==
    algo = "MountainCar" =>
        /\ InBounds(car)
        /\ hop.call = "step" =>
               /\ hop.t.from = ObservationOf(hop.before)
               /\ hop.t.to = ObservationOf(car)
               /\ hop.t.reward = (IF RLe(X_MAX, car.x) THEN 0 ELSE -1)
               /\ hop.t.reward = 0 <=> hop.t.to.kind = "Terminal"

(* a step from a Full observation that would pass X_MAX: the position is   *)
(* clipped to X_MAX, to is Terminal and the reward is 0                    *)
C12_Witness ==
    /\ algo = "MountainCar"
    /\ hop.call = "step"
    /\ nSteps >= 2
    /\ hop.t.from.kind = "Full"
    /\ RLt(X_MAX, RAdd(hop.before.x, car.v))
    /\ car.x = X_MAX
    /\ hop.t.to.kind = "Terminal"
    /\ hop.t.reward = 0

====
